------------------------------ MODULE Spec2Model ------------------------------
(***************************************************************************)
(* The review pipeline of the literature-review agent: the review route    *)
(* (POST), runAgent's search loop and synthesis stream, and executeTool    *)
(* with the provider adapters of lib/tools.ts.                             *)
(*                                                                         *)
(* runAgent is one asynchronous function.  It is cut at its awaits: a pc   *)
(* value names the await the function is suspended at ("llm", "tool_delay",*)
(* "tool_fetch", "stream") or a position of its synchronous code between   *)
(* two awaits ("loop_top", "tool_top", "phase2").  The abort signal can    *)
(* only be raised while the function is suspended at an await.             *)
(*                                                                         *)
(* The locals of the search loop (iterations, messages, the tool_use       *)
(* blocks and the tool results of a turn) are not read once the loop is    *)
(* left, by break, by return or by its guard: the model clears them there. *)
(***************************************************************************)
EXTENDS Integers, Sequences, FiniteSets, TLC

(***************************************************************************)
(* Bounds of the model.                                                    *)
(***************************************************************************)
MaxTools == 2        \* tool_use blocks in one LLM response
MaxResults == 2      \* entries in one provider search result
MaxStream == 2       \* events delivered by one synthesis stream

(***************************************************************************)
(* Program constants.                                                      *)
(***************************************************************************)
maxIterations == 8
NudgeFreeIterations == 3

(***************************************************************************)
(* Strings are sequences of characters over a small alphabet.              *)
(***************************************************************************)
IsSpace(c) == c = " "

ToLowerChar(c) == IF c = "A" THEN "a" ELSE IF c = "B" THEN "b" ELSE c

ToLowerCase(s) == [i \in 1..Len(s) |-> ToLowerChar(s[i])]

RECURSIVE TrimStart(_)
TrimStart(s) ==
  IF s # <<>> /\ IsSpace(Head(s)) THEN TrimStart(Tail(s)) ELSE s

RECURSIVE TrimEnd(_)
TrimEnd(s) ==
  IF s # <<>> /\ IsSpace(s[Len(s)]) THEN TrimEnd(SubSeq(s, 1, Len(s) - 1)) ELSE s

Trim(s) == TrimEnd(TrimStart(s))

\* s.replace(/\s+/g, " "): every run of whitespace becomes one space
RECURSIVE CollapseWs(_)
CollapseWs(s) ==
  IF s = <<>> THEN <<>>
  ELSE IF IsSpace(Head(s))
       THEN <<" ">> \o CollapseWs(TrimStart(s))
       ELSE <<Head(s)>> \o CollapseWs(Tail(s))

\* mutant of PaperKey: the key is trimmed but keeps its case
PaperKeyNoLower(t) == Trim(t)

\* the key of the collected-paper Map: paper.title.toLowerCase().trim()
PaperKey(t) == Trim(ToLowerCase(t))

(***************************************************************************)
(* Provider data and the adapters of lib/tools.ts.  A raw entry is what    *)
(* the provider sends: a title, or no title field at all.                  *)
(***************************************************************************)
RawTitles == { <<"A">>, <<" ", "a">>, <<"b">> }

RawEntries ==
  [hasTitle : {TRUE}, title : RawTitles] \cup { [hasTitle |-> FALSE, title |-> <<>>] }

RECURSIVE SeqsUpTo(_, _)
SeqsUpTo(S, n) ==
  IF n = 0 THEN { <<>> }
  ELSE LET shorter == SeqsUpTo(S, n - 1)
       IN  shorter \cup { Append(s, x) : s \in { t \in shorter : Len(t) = n - 1 }, x \in S }

RawResults == SeqsUpTo(RawEntries, MaxResults)

\* a title is truthy when it is present and not the empty string
Truthy(p) == p.hasTitle /\ p.title # <<>>

RECURSIVE SelectSeq2(_, _)
SelectSeq2(s, i) ==
  IF i > Len(s) THEN <<>>
  ELSE (IF Truthy(s[i]) THEN <<s[i]>> ELSE <<>>) \o SelectSeq2(s, i + 1)

\* searchSemanticScholar: entries without a title are filtered out
searchSemanticScholar(raw) ==
  LET kept == SelectSeq2(raw, 1)
  IN  [i \in 1..Len(kept) |->
         [hasTitle |-> TRUE, title |-> kept[i].title]]

\* (entry.title?.[0] || "").replace(/\s+/g, " ").trim()
ArxivTitle(e) == IF e.hasTitle THEN Trim(CollapseWs(e.title)) ELSE <<>>

\* searchArxiv: every entry is mapped, none is filtered
searchArxiv(raw) ==
  [i \in 1..Len(raw) |->
     [hasTitle |-> TRUE, title |-> ArxivTitle(raw[i])]]

\* what each search adapter can answer, over every raw result
SemanticScholarAnswers == { searchSemanticScholar(raw) : raw \in RawResults }

ArxivAnswers == { searchArxiv(raw) : raw \in RawResults }

SearchAnswers(name) ==
  IF name = "search_semantic_scholar" THEN SemanticScholarAnswers ELSE ArxivAnswers

\* getPaperDetails: null (the empty sequence) for a failed fetch, an unknown
\* source or no entry, and else one paper
NoPaper == <<>>

getPaperDetails(source, found, e) ==
  IF ~found THEN NoPaper
  ELSE IF source = "semantic_scholar"
       THEN << [hasTitle |-> e.hasTitle, title |-> e.title] >>
       ELSE IF source = "arxiv"
            THEN << [hasTitle |-> TRUE, title |-> ArxivTitle(e)] >>
            ELSE NoPaper


(***************************************************************************)
(* LLM responses of the search phase.  A text block is a sequence of       *)
(* tokens; the sentinel phrase is one token, or its two halves in a row.   *)
(***************************************************************************)
TextChoices ==
  { <<>>,
    << <<" ">> >>,
    << <<"w">> >>,
    << <<" ", "SYNTHESIS_READY">> >>,
    << <<"w", "SYNTHESIS_">>, <<"READY">> >>,
    << <<"SYNTHESIS_", "READY", " ">> >> }

ToolNames ==
  { "search_semantic_scholar", "search_arxiv", "get_paper_details",
    "extract_findings", "other_tool" }

\* the ids of the tool_use blocks of a response are distinct; they are the
\* LLM's, and need not follow the order of the blocks
BlockId(i, n) == n + 1 - i

ToolUseChoices ==
  { [i \in 1..Len(names) |-> [id |-> BlockId(i, Len(names)), name |-> names[i]]] :
      names \in SeqsUpTo(ToolNames, MaxTools) }

StopReasons(toolUseBlocks) ==
  IF toolUseBlocks = <<>> THEN { "end_turn", "max_tokens" }
  ELSE { "tool_use", "max_tokens" }

\* textBlocks.map((b) => b.text).join("\n")
RECURSIVE JoinText(_)
JoinText(blocks) ==
  IF blocks = <<>> THEN <<>>
  ELSE IF Len(blocks) = 1 THEN blocks[1]
       ELSE blocks[1] \o <<"\n">> \o JoinText(Tail(blocks))

\* textContent.includes("SYNTHESIS_READY")
IncludesSentinel(text) ==
  \E i \in 1..Len(text) :
     \/ text[i] = "SYNTHESIS_READY"
     \/ i < Len(text) /\ text[i] = "SYNTHESIS_" /\ text[i + 1] = "READY"

\* mutant of SearchDone: the stalling rule applies one iteration early
SearchDoneEarly(text, toolUseBlocks, stop, it) ==
  \/ IncludesSentinel(text)
  \/ (toolUseBlocks = <<>> /\ it >= NudgeFreeIterations - 1)
  \/ (stop = "end_turn" /\ toolUseBlocks = <<>>)

\* mutant of SearchDone: the sentinel only counts without tool_use blocks
SearchDoneNoTools(text, toolUseBlocks, stop, it) ==
  \/ (IncludesSentinel(text) /\ toolUseBlocks = <<>>)
  \/ (toolUseBlocks = <<>> /\ it >= NudgeFreeIterations)
  \/ (stop = "end_turn" /\ toolUseBlocks = <<>>)

\* the condition that ends the search phase after a response
SearchDone(text, toolUseBlocks, stop, it) ==
  \/ IncludesSentinel(text)
  \/ (toolUseBlocks = <<>> /\ it >= NudgeFreeIterations)
  \/ (stop = "end_turn" /\ toolUseBlocks = <<>>)

\* mutant of LoopGuard: the loop gives up one iteration early
LoopGuardShort(it) == it < maxIterations - 1

\* mutant of LoopGuard: the comparison is off by one
LoopGuardInclusive(it) == it <= maxIterations

\* the condition of the while loop
LoopGuard(it) == it < maxIterations

(***************************************************************************)
(* The state.                                                              *)
(***************************************************************************)
VARIABLES
  pc,               \* where the route and runAgent are
  aborted,          \* signal.aborted
  iterations,       \* runAgent's iterations
  messages,         \* the transcript: role, kind and blocks of each turn
  collectedPapers,  \* the Map, from key to paper
  pending,          \* the tool_use blocks of this turn not yet executed
  toolResults,      \* the tool_result blocks of this turn
  streamLen,        \* events the synthesis stream has delivered
  log,              \* what the event callback has received, summarised
  generated,        \* history: text fragments the stream has produced
  hist,             \* history: facts about the run so far
  controller,       \* the controller of the route's response stream
  reader,           \* browser: the response stream handleSubmit reads
  page,             \* browser: the state handleSubmit sets
  toolInput,        \* a search tool call on its own: the input the LLM sent
  providerLimit     \* a search tool call on its own: the limit in the URL

vars ==
  << pc, aborted, iterations, messages, collectedPapers, pending, toolResults,
     streamLen, log, generated, hist, controller, reader, page, toolInput,
     providerLimit >>

\* the variables of the browser and of the search tool call taken on its own,
\* which a run of the route leaves alone
side == << reader, page, toolInput, providerLimit >>

AwaitPcs == { "llm", "tool_delay", "tool_fetch", "stream" }

(***************************************************************************)
(* The event callback.  log keeps, of the sequence of events emitted so    *)
(* far, what the properties read: the error messages and the review_chunk  *)
(* payloads in emission order, the latest papers_count, counts of the      *)
(* other types, and whether an event followed a terminal event, followed   *)
(* review_start or was emitted with the abort signal set (any event other  *)
(* than an error, and a review_chunk in particular).                       *)
(***************************************************************************)
SearchTypes == { "thinking", "paper_found", "papers_count" }

Min(a, b) == IF a < b THEN a ELSE b

InitLog ==
  [ errors      |-> <<>>,
    nComplete   |-> 0,
    paperCount  |-> 0,
    nStart      |-> 0,
    chunks      |-> <<>>,
    nFound      |-> 0,
    hasCount    |-> FALSE,
    lastCount   |-> 0,
    countMono   |-> TRUE,
    countIsFound |-> TRUE,
    afterTerminal |-> FALSE,
    lateSearch  |-> FALSE,
    cancelOther |-> FALSE,
    cancelChunk |-> FALSE,
    dropped     |-> FALSE,
    afterClose  |-> FALSE,
    cancelErrors |-> 0 ]

onEvent(lg, ab, type, data) ==
  [ errors      |-> IF type = "error" THEN Append(lg.errors, data) ELSE lg.errors,
    nComplete   |-> IF type = "complete" THEN Min(lg.nComplete + 1, 2) ELSE lg.nComplete,
    paperCount  |-> IF type = "complete" THEN data ELSE lg.paperCount,
    nStart      |-> IF type = "review_start" THEN Min(lg.nStart + 1, 2) ELSE lg.nStart,
    chunks      |-> IF type = "review_chunk" THEN Append(lg.chunks, data) ELSE lg.chunks,
    nFound      |-> IF type = "paper_found" THEN lg.nFound + 1 ELSE lg.nFound,
    hasCount    |-> lg.hasCount \/ type = "papers_count",
    lastCount   |-> IF type = "papers_count" THEN data ELSE lg.lastCount,
    countMono   |-> lg.countMono /\
                    (type = "papers_count" /\ lg.hasCount => data >= lg.lastCount),
    countIsFound |-> lg.countIsFound /\
                     (type = "papers_count" => data = lg.nFound),
    afterTerminal |-> lg.afterTerminal \/ lg.nComplete > 0 \/ lg.errors # <<>>,
    lateSearch  |-> lg.lateSearch \/ (lg.nStart > 0 /\ type \in SearchTypes),
    cancelOther |-> lg.cancelOther \/ (ab /\ type # "error"),
    cancelChunk |-> lg.cancelChunk \/ (ab /\ type = "review_chunk"),
    dropped     |-> lg.dropped,
    afterClose  |-> lg.afterClose,
    cancelErrors |-> IF ab /\ type = "error" THEN Min(lg.cancelErrors + 1, 2)
                     ELSE lg.cancelErrors ]

\* mutant of sendEvent: the frame is never enqueued
sendEventLossy(lg, ctl) == [lg EXCEPT !.dropped = TRUE]

\* sendEvent: controller.enqueue throws when the stream is no longer
\* readable, and the catch drops the frame
sendEvent(lg, ctl) ==
  [lg EXCEPT !.dropped = @ \/ ctl.state # "readable",
             !.afterClose = @ \/ ctl.state = "closed"]

\* the callback the route gives to runAgent
Emit(lg, type, data) == sendEvent(onEvent(lg, aborted, type, data), controller)


(***************************************************************************)
(* The collected-paper Map: a function from the keys it holds to their     *)
(* papers.  The insertion order of the Map is only read to number the      *)
(* papers in the synthesis prompt, which the model does not build.         *)
(***************************************************************************)
EmptyMap == [k \in {} |-> k]

MapHas(m, k) == k \in DOMAIN m

MapSet(m, k, v) == [x \in (DOMAIN m) \cup {k} |-> IF x = k THEN v ELSE m[x]]

MapSize(m) == Cardinality(DOMAIN m)

(***************************************************************************)
(* executeTool.  st is [map, log]: the Map and the events so far.          *)
(***************************************************************************)
\* mutant of CollectSearched: paper_found is emitted for every titled paper
CollectSearchedAnnounceAll(st, paper) ==
  IF Truthy(paper)
  THEN [ map |-> IF MapHas(st.map, PaperKey(paper.title)) THEN st.map
                 ELSE MapSet(st.map, PaperKey(paper.title), paper),
         log |-> Emit(st.log, "paper_found", paper.title) ]
  ELSE st

\* mutant of CollectSearched: a paper whose key the Map holds replaces the
\* entry
CollectSearchedOverwrite(st, paper) ==
  IF Truthy(paper)
  THEN [ map |-> MapSet(st.map, PaperKey(paper.title), paper),
         log |-> IF MapHas(st.map, PaperKey(paper.title)) THEN st.log
                 ELSE Emit(st.log, "paper_found", paper.title) ]
  ELSE st

\* one round of the for loop of a search tool
CollectSearched(st, paper) ==
  IF Truthy(paper) /\ ~MapHas(st.map, PaperKey(paper.title))
  THEN [ map |-> MapSet(st.map, PaperKey(paper.title), paper),
         log |-> Emit(st.log, "paper_found", paper.title) ]
  ELSE st

RECURSIVE CollectAll(_, _, _)
CollectAll(st, papers, i) ==
  IF i > Len(papers) THEN st
  ELSE CollectAll(CollectSearched(st, papers[i]), papers, i + 1)

\* mutant of EmitCount: the number of papers the provider returned
EmitCountReturned(st, papers) == Emit(st.log, "papers_count", Len(papers))

\* the papers_count event that ends a search tool
EmitCount(st, papers) == Emit(st.log, "papers_count", MapSize(st.map))

\* a search tool after the provider has answered
SearchReturned(st, papers) ==
  LET done == CollectAll(st, papers, 1)
  IN  [ map |-> done.map, log |-> EmitCount(done, papers) ]

\* mutant of DetailsReturned: the new paper is announced without a count
DetailsReturnedNoCount(st, paper) ==
  IF ~MapHas(st.map, PaperKey(paper.title))
  THEN [ map |-> MapSet(st.map, PaperKey(paper.title), paper),
         log |-> Emit(st.log, "paper_found", paper.title) ]
  ELSE st

\* get_paper_details after getPaperDetails has answered with a paper
DetailsReturned(st, paper) ==
  IF ~MapHas(st.map, PaperKey(paper.title))
  THEN LET map == MapSet(st.map, PaperKey(paper.title), paper)
           log1 == Emit(st.log, "paper_found", paper.title)
       IN  [ map |-> map, log |-> Emit(log1, "papers_count", MapSize(map)) ]
  ELSE st

\* mutant of ToolFailed: the exception is reported as an error event
ToolFailedAsError(lg) == Emit(lg, "error", "tool")

\* the catch around executeTool in runAgent
ToolFailed(lg) == Emit(lg, "status", "warning")

\* mutant of ToolResult: the result does not carry the id of its call
ToolResultFirstId(block, content) == [tool_use_id |-> 1, content |-> content]

\* the tool_result block pushed for a tool call
ToolResult(block, content) == [tool_use_id |-> block.id, content |-> content]

(***************************************************************************)
(* The initial state: the route has accepted the request.                  *)
(***************************************************************************)
\* history: what the done check read of the response that has just been
\* acted on; it is forgotten by the step that follows
NoResponse ==
  [sentinel |-> FALSE, nTools |-> 0, endTurn |-> FALSE, iteration |-> 0]

Responded(h, text, toolUseBlocks, stop, it) ==
  [h EXCEPT !.response =
     [ sentinel |-> IncludesSentinel(text), nTools |-> Len(toolUseBlocks),
       endTurn |-> stop = "end_turn", iteration |-> it ]]

\* history: whether the tool call that has just returned skipped a paper
\* whose key the Map held; it is forgotten by the step that follows
Skipped(h, dup) == [h EXCEPT !.dupSkipped = dup]

Forget(h) == [h EXCEPT !.response = NoResponse, !.dupSkipped = FALSE]

InitHist ==
  [ overCeiling     |-> FALSE,
    cancelPhase     |-> "none",
    sentinelSeen    |-> FALSE,
    sentinelTools   |-> FALSE,
    lateDispatch    |-> FALSE,
    streamOpened    |-> FALSE,
    streamExhausted |-> FALSE,
    streamFailed    |-> FALSE,
    response        |-> NoResponse,
    dupSkipped      |-> FALSE,
    searchEnd       |-> "none",
    emptyAtSearchEnd |-> FALSE,
    papersForReview |-> EmptyMap ]

\* history: how the search phase ended, and whether the Map was empty then
EndSearch(h, how) ==
  [h EXCEPT !.searchEnd = how, !.emptyAtSearchEnd = MapSize(collectedPapers) = 0]

\* new ReadableStream: readable, close not yet called
InitController == [state |-> "readable", closeCalls |-> 0]

\* the browser has not submitted: no response is being read
NoReader ==
  [ state |-> "none", ok |-> TRUE, frames |-> <<>>, ending |-> "done",
    completeSeen |-> FALSE ]

\* useState(false) of isRunning and isComplete; nothing saved or logged yet
IdlePage ==
  [ isRunning |-> FALSE, isComplete |-> FALSE, saved |-> 0, errorLogs |-> 0 ]

\* no search tool call is looked at on its own
NoInput == [name |-> "none", hasLimit |-> FALSE, limit |-> 0]

Init ==
  /\ pc = "start"
  /\ aborted = FALSE
  /\ iterations = 0
  /\ messages = <<>>
  /\ collectedPapers = EmptyMap
  /\ pending = <<>>
  /\ toolResults = <<>>
  /\ streamLen = 0
  /\ log = InitLog
  /\ generated = <<>>
  /\ hist = InitHist
  /\ controller = InitController
  /\ reader = NoReader
  /\ page = IdlePage
  /\ toolInput = NoInput
  /\ providerLimit = <<>>

\* a turn whose content is text
Turn(role, kind) == [role |-> role, kind |-> kind, content |-> <<>>]

\* mutant of AssistantTurn: the response is pushed as a user turn
AssistantTurnAsUser(toolUseBlocks) ==
  [ role |-> "user", kind |-> "response",
    content |-> [i \in 1..Len(toolUseBlocks) |-> toolUseBlocks[i].id] ]

\* the assistant turn: response.content, of which the model keeps the ids of
\* the tool_use blocks, in the order of the response
AssistantTurn(toolUseBlocks) ==
  [ role |-> "assistant", kind |-> "response",
    content |-> [i \in 1..Len(toolUseBlocks) |-> toolUseBlocks[i].id] ]

\* the user turn that answers the tool calls: its content is toolResults
ToolResultTurn(results) ==
  [ role |-> "user", kind |-> "tool_results", content |-> results ]

\* The content of a turn is only read by the LLM.  Once the transcript has
\* been sent, the model keeps the role of each turn and forgets what the
\* turns after the topic message held.
Sent(m) ==
  [i \in 1..Len(m) |-> IF i = 1 THEN m[i] ELSE Turn(m[i].role, "sent")]

\* the loop is left: its locals are dead
LeaveLoop ==
  /\ iterations' = 0
  /\ messages' = <<>>
  /\ pending' = <<>>
  /\ toolResults' = <<>>

(***************************************************************************)
(* The route starts runAgent; the constructor of the client may throw,     *)
(* and the route's catch then sends the error event.                       *)
(***************************************************************************)
\* mutant of RouteCatch: the exception is swallowed
RouteCatchSilent(lg) == lg

\* the catch of the route: the exception becomes an error event
RouteCatch(lg) == Emit(lg, "error", "route")

RunAgentStart ==
  /\ pc = "start"
  /\ \E ctorThrows \in BOOLEAN :
       IF ctorThrows
       THEN /\ log' = RouteCatch(log)
            /\ pc' = "returned"
            /\ UNCHANGED messages
       ELSE /\ log' = Emit(log, "status", "starting")
            /\ messages' = << Turn("user", "topic") >>
            /\ pc' = "loop_top"
  /\ UNCHANGED << aborted, iterations, collectedPapers, pending, toolResults,
                  streamLen, generated, hist >>
  /\ UNCHANGED << controller, side >>

(***************************************************************************)
(* The top of the while loop.                                              *)
(***************************************************************************)
LoopExhausted ==
  /\ pc = "loop_top"
  /\ ~LoopGuard(iterations)
  /\ pc' = "phase2"
  /\ hist' = EndSearch(Forget(hist), "exhausted")
  /\ LeaveLoop
  /\ UNCHANGED << aborted, collectedPapers, streamLen, log, generated >>
  /\ UNCHANGED << controller, side >>

LoopCancelled ==
  /\ pc = "loop_top"
  /\ LoopGuard(iterations)
  /\ aborted
  /\ log' = Emit(log, "error", "cancelled")
  /\ pc' = "returned"
  /\ hist' = EndSearch(Forget(hist), "cancelled")
  /\ LeaveLoop
  /\ UNCHANGED << aborted, collectedPapers, streamLen, generated >>
  /\ UNCHANGED << controller, side >>

LoopIterate ==
  /\ pc = "loop_top"
  /\ LoopGuard(iterations)
  /\ ~aborted
  /\ iterations' = iterations + 1
  /\ log' = Emit(log, "status", "reasoning")
  /\ hist' = [Forget(hist) EXCEPT
                !.overCeiling = @ \/ iterations + 1 > maxIterations]
  /\ messages' = Sent(messages)
  /\ pc' = "llm"
  /\ UNCHANGED << aborted, collectedPapers, pending, toolResults, streamLen,
                  generated >>
  /\ UNCHANGED << controller, side >>

(***************************************************************************)
(* The LLM call of an iteration returns or raises.                         *)
(***************************************************************************)
\* thinking events: one per text block whose trimmed text is not empty
RECURSIVE EmitThinking(_, _, _)
EmitThinking(lg, textBlocks, i) ==
  IF i > Len(textBlocks) THEN lg
  ELSE EmitThinking(
         IF Trim(textBlocks[i]) # <<>>
         THEN Emit(lg, "thinking", Trim(textBlocks[i])) ELSE lg,
         textBlocks, i + 1)

\* mutant of Nudged: the assistant turn is not appended
NudgedNoAssistant(m, toolUseBlocks) == Append(m, Turn("user", "nudge"))

\* the transcript after a response without tool calls that does not end the
\* phase: the assistant turn, then the nudge
Nudged(m, toolUseBlocks) ==
  m \o << AssistantTurn(toolUseBlocks), Turn("user", "nudge") >>

LLMReturn ==
  /\ pc = "llm"
  /\ \E textBlocks \in TextChoices :
       LET log1 == EmitThinking(log, textBlocks, 1)
           textContent == JoinText(textBlocks)
           sentinel == IncludesSentinel(textContent)
       IN  \E toolUseBlocks \in ToolUseChoices :
           \E stop \in StopReasons(toolUseBlocks) :
             LET hist0 == Responded(hist, textContent, toolUseBlocks, stop,
                                    iterations)
                 hist1 == [hist0 EXCEPT
                             !.sentinelSeen = @ \/ sentinel,
                             !.sentinelTools =
                                @ \/ (sentinel /\ toolUseBlocks # <<>>)]
             IN  IF SearchDone(textContent, toolUseBlocks, stop, iterations)
                 THEN /\ pc' = "phase2"
                      /\ log' = Emit(log1, "status", "search complete")
                      /\ hist' = EndSearch(hist1, "done")
                      /\ iterations' = 0
                      /\ pending' = <<>>
                      /\ toolResults' = <<>>
                      /\ UNCHANGED messages
                 ELSE IF toolUseBlocks = <<>>
                 THEN /\ pc' = "loop_top"
                      /\ log' = log1
                      /\ messages' = Nudged(messages, toolUseBlocks)
                      /\ hist' = hist1
                      /\ UNCHANGED << iterations, pending, toolResults >>
                 ELSE /\ pc' = "tool_top"
                      /\ pending' = toolUseBlocks
                      /\ log' = log1
                      /\ messages' = Append(messages, AssistantTurn(toolUseBlocks))
                      /\ toolResults' = <<>>
                      /\ hist' = hist1
                      /\ UNCHANGED iterations
  /\ UNCHANGED << aborted, collectedPapers, streamLen, generated >>
  /\ UNCHANGED << controller, side >>

\* mutant of LLMError: the exception is swallowed
LLMErrorSilent(lg) == lg

\* the catch around the LLM call
LLMError(lg) == Emit(lg, "error", "api")

LLMRaise ==
  /\ pc = "llm"
  /\ log' = LLMError(log)
  /\ pc' = "returned"
  /\ hist' = EndSearch(hist, "failed")
  /\ LeaveLoop
  /\ UNCHANGED << aborted, collectedPapers, streamLen, generated >>
  /\ UNCHANGED << controller, side >>


(***************************************************************************)
(* The for loop over the tool_use blocks of a response.                    *)
(***************************************************************************)
ToolsDone ==
  /\ pc = "tool_top"
  /\ pending = <<>>
  /\ messages' = Append(messages, ToolResultTurn(toolResults))
  /\ toolResults' = <<>>
  /\ hist' = Forget(hist)
  /\ pc' = "loop_top"
  /\ UNCHANGED << aborted, iterations, collectedPapers, pending, streamLen, log,
                  generated >>
  /\ UNCHANGED << controller, side >>

ToolCancelled ==
  /\ pc = "tool_top"
  /\ pending # <<>>
  /\ aborted
  /\ log' = Emit(log, "error", "cancelled")
  /\ pc' = "returned"
  /\ hist' = EndSearch(Forget(hist), "cancelled")
  /\ LeaveLoop
  /\ UNCHANGED << aborted, collectedPapers, streamLen, generated >>
  /\ UNCHANGED << controller, side >>

\* history: a tool call is dispatched
Dispatched(h) == [Forget(h) EXCEPT !.lateDispatch = @ \/ h.sentinelSeen]

\* a search or a detail fetch: the status event, then the pacing delay
ToolDispatchAsync ==
  /\ pc = "tool_top"
  /\ pending # <<>>
  /\ ~aborted
  /\ Head(pending).name \in
       { "search_semantic_scholar", "search_arxiv", "get_paper_details" }
  /\ log' = Emit(log, "status", Head(pending).name)
  /\ pc' = "tool_delay"
  /\ hist' = Dispatched(hist)
  /\ UNCHANGED << aborted, iterations, messages, collectedPapers, pending,
                  toolResults, streamLen, generated >>
  /\ UNCHANGED << controller, side >>

\* extract_findings: answers without an await; a missing paper_title makes
\* paperTitle.substring throw before the status event is emitted
ToolExtract ==
  /\ pc = "tool_top"
  /\ pending # <<>>
  /\ ~aborted
  /\ Head(pending).name = "extract_findings"
  /\ \E hasTitle \in BOOLEAN :
       IF hasTitle
       THEN /\ log' = Emit(log, "status", "extracting")
            /\ toolResults' = Append(toolResults, ToolResult(Head(pending), "json"))
       ELSE /\ log' = ToolFailed(log)
            /\ toolResults' = Append(toolResults, ToolResult(Head(pending), "error"))
  /\ pending' = Tail(pending)
  /\ hist' = Dispatched(hist)
  /\ UNCHANGED << pc, aborted, iterations, messages, collectedPapers, streamLen,
                  generated >>
  /\ UNCHANGED << controller, side >>

\* mutant of UnknownTool: the default case throws
UnknownToolThrows(name) == "error"

\* the string the default case of the switch returns
UnknownTool(name) == "Unknown tool: " \o name

\* the default case of the switch
ToolUnknown ==
  /\ pc = "tool_top"
  /\ pending # <<>>
  /\ ~aborted
  /\ Head(pending).name \notin
       { "search_semantic_scholar", "search_arxiv", "get_paper_details",
         "extract_findings" }
  /\ toolResults' = Append(toolResults, ToolResult(Head(pending), UnknownTool(Head(pending).name)))
  /\ pending' = Tail(pending)
  /\ hist' = Dispatched(hist)
  /\ UNCHANGED << pc, aborted, iterations, messages, collectedPapers, streamLen,
                  log, generated >>
  /\ UNCHANGED << controller, side >>

\* await delay(800) or delay(500) ends
DelayDone ==
  /\ pc = "tool_delay"
  /\ pc' = "tool_fetch"
  /\ UNCHANGED << aborted, iterations, messages, collectedPapers, pending,
                  toolResults, streamLen, log, generated, hist >>
  /\ UNCHANGED << controller, side >>

\* the provider call of a search tool returns its entries
SearchReturn ==
  /\ pc = "tool_fetch"
  /\ Head(pending).name \in { "search_semantic_scholar", "search_arxiv" }
  /\ \E papers \in SearchAnswers(Head(pending).name) :
       LET st == SearchReturned([map |-> collectedPapers, log |-> log], papers)
       IN  /\ collectedPapers' = st.map
           /\ log' = st.log
           /\ hist' = Skipped(hist, Len(SelectSeq2(papers, 1)) >
                                      MapSize(st.map) - MapSize(collectedPapers))
  /\ toolResults' = Append(toolResults, ToolResult(Head(pending), "json"))
  /\ pending' = Tail(pending)
  /\ pc' = "tool_top"
  /\ UNCHANGED << aborted, iterations, messages, streamLen, generated >>
  /\ UNCHANGED << controller, side >>

\* the provider call of a search tool throws (HTTP status, transport, parse)
SearchThrow ==
  /\ pc = "tool_fetch"
  /\ Head(pending).name \in { "search_semantic_scholar", "search_arxiv" }
  /\ log' = ToolFailed(log)
  /\ toolResults' = Append(toolResults, ToolResult(Head(pending), "error"))
  /\ pending' = Tail(pending)
  /\ pc' = "tool_top"
  /\ UNCHANGED << aborted, iterations, messages, collectedPapers, streamLen,
                  generated, hist >>
  /\ UNCHANGED << controller, side >>

\* getPaperDetails returns: null, a paper, or a record whose title is
\* undefined, on which paper.title.toLowerCase() throws
DetailsReturn ==
  /\ pc = "tool_fetch"
  /\ Head(pending).name = "get_paper_details"
  /\ \E source \in { "semantic_scholar", "arxiv", "other" },
        found \in BOOLEAN, e \in RawEntries :
       LET got == getPaperDetails(source, found, e)
           paper == got[1]
       IN  IF got = NoPaper
           THEN /\ toolResults' =
                     Append(toolResults, ToolResult(Head(pending), "not found"))
                /\ UNCHANGED << collectedPapers, log, hist >>
           ELSE IF ~paper.hasTitle
           THEN /\ log' = ToolFailed(log)
                /\ toolResults' =
                     Append(toolResults, ToolResult(Head(pending), "error"))
                /\ UNCHANGED << collectedPapers, hist >>
           ELSE LET st == DetailsReturned([map |-> collectedPapers, log |-> log], paper)
                IN  /\ collectedPapers' = st.map
                    /\ log' = st.log
                    /\ hist' = Skipped(hist, st.map = collectedPapers)
                    /\ toolResults' =
                         Append(toolResults, ToolResult(Head(pending), "json"))
  /\ pending' = Tail(pending)
  /\ pc' = "tool_top"
  /\ UNCHANGED << aborted, iterations, messages, streamLen, generated >>
  /\ UNCHANGED << controller, side >>


(***************************************************************************)
(* Phase 2: the guard on the Map, then the synthesis stream.               *)
(***************************************************************************)
\* The break of the done check leaves the transcript as it was sent; phase 2
\* builds a message list of its own, and the transcript is dead from its
\* first step on.
\* mutant of NoPapersGuard: a comparison that never holds
NoPapersGuardNever(m) == MapSize(m) < 0

\* collectedPapers.size === 0
NoPapersGuard(m) == MapSize(m) = 0

NoPapers ==
  /\ pc = "phase2"
  /\ NoPapersGuard(collectedPapers)
  /\ log' = Emit(log, "error", "no papers")
  /\ hist' = Forget(hist)
  /\ messages' = <<>>
  /\ pc' = "returned"
  /\ UNCHANGED << aborted, iterations, collectedPapers, pending,
                  toolResults, streamLen, generated >>
  /\ UNCHANGED << controller, side >>

\* mutant of StartReview: review_start is not emitted
StartReviewSilent(lg) == Emit(lg, "status", "writing")

\* the two events that open phase 2
StartReview(lg) == Emit(Emit(lg, "review_start", ""), "status", "writing")

ReviewStart ==
  /\ pc = "phase2"
  /\ ~NoPapersGuard(collectedPapers)
  /\ log' = StartReview(log)
  /\ streamLen' = 0
  /\ hist' = [Forget(hist) EXCEPT !.streamOpened = TRUE,
                                  !.papersForReview = collectedPapers]
  /\ messages' = <<>>
  /\ pc' = "stream"
  /\ UNCHANGED << aborted, iterations, collectedPapers, pending,
                  toolResults, generated >>
  /\ UNCHANGED << controller, side >>

StreamEventKinds == { "text_delta", "other_delta", "other" }

Fragments == { "x", "y" }

\* content_block_delta whose delta has a text field
IsTextDelta(kind) == kind = "text_delta"

\* mutant of ForwardEvent: every content_block_delta is forwarded
ForwardEveryDelta(lg, kind, text) ==
  IF kind \in { "text_delta", "other_delta" }
  THEN Emit(lg, "review_chunk", text) ELSE lg

\* the body of the for-await loop once the abort check has passed
ForwardEvent(lg, kind, text) ==
  IF IsTextDelta(kind) THEN Emit(lg, "review_chunk", text) ELSE lg

\* the stream delivers its next event
StreamEvent ==
  /\ pc = "stream"
  /\ streamLen < MaxStream
  /\ \E kind \in StreamEventKinds, text \in Fragments :
       /\ generated' = IF kind = "text_delta" THEN Append(generated, text)
                       ELSE generated
       /\ IF aborted
          THEN /\ log' = Emit(log, "error", "cancelled")
               /\ pc' = "returned"
          ELSE /\ log' = ForwardEvent(log, kind, text)
               /\ pc' = "stream"
  /\ streamLen' = streamLen + 1
  /\ UNCHANGED << aborted, iterations, messages, collectedPapers, pending,
                  toolResults, hist >>
  /\ UNCHANGED << controller, side >>

\* mutant of Complete: the event is not emitted
CompleteMissing(lg) == lg

\* the event after the stream is exhausted
Complete(lg) == Emit(lg, "complete", MapSize(collectedPapers))

StreamEnd ==
  /\ pc = "stream"
  /\ log' = Complete(log)
  /\ hist' = [hist EXCEPT !.streamExhausted = TRUE]
  /\ pc' = "returned"
  /\ UNCHANGED << aborted, iterations, messages, collectedPapers, pending,
                  toolResults, streamLen, generated >>
  /\ UNCHANGED << controller, side >>

\* mutant of StreamCatch: the chunks sent so far are withdrawn
StreamCatchRetract(lg) ==
  Emit([lg EXCEPT !.chunks = <<>>], "error", "generation")

\* the catch around the stream
StreamCatch(lg) ==
  IF aborted THEN Emit(lg, "error", "cancelled")
  ELSE Emit(lg, "error", "generation")

StreamError ==
  /\ pc = "stream"
  /\ log' = StreamCatch(log)
  /\ hist' = [hist EXCEPT !.streamFailed = TRUE]
  /\ pc' = "returned"
  /\ UNCHANGED << aborted, iterations, messages, collectedPapers, pending,
                  toolResults, streamLen, generated >>
  /\ UNCHANGED << controller, side >>

(***************************************************************************)
(* The route's finally closes the response stream.                         *)
(***************************************************************************)
\* controller.close() in its try: it throws when the stream is not readable
Close(ctl) ==
  [ state |-> IF ctl.state = "readable" THEN "closed" ELSE ctl.state,
    closeCalls |-> ctl.closeCalls + 1 ]

RouteClose ==
  /\ pc = "returned"
  /\ pc' = "closed"
  /\ controller' = Close(controller)
  /\ UNCHANGED << aborted, iterations, messages, collectedPapers, pending,
                  toolResults, streamLen, log, generated, hist >>
  /\ UNCHANGED side

(***************************************************************************)
(* The client disconnects: the abort signal is raised while runAgent is    *)
(* suspended at an await.                                                  *)
(***************************************************************************)
\* the listener on req.signal: abortController.abort()
AbortRelay ==
  /\ pc \in AwaitPcs
  /\ ~aborted
  /\ aborted' = TRUE
  /\ hist' = [hist EXCEPT !.cancelPhase =
                IF pc = "stream" THEN "synthesis" ELSE "search"]
  /\ UNCHANGED << pc, iterations, messages, collectedPapers, pending,
                  toolResults, streamLen, log, generated >>
  /\ UNCHANGED side

Abort ==
  /\ AbortRelay
  /\ UNCHANGED controller

(***************************************************************************)
(* The same disconnect, with the response stream in view: the platform may *)
(* cancel the stream it was sending to that client, and enqueue and close  *)
(* then throw.  The controller is read by sendEvent and by close alone, so *)
(* a run differs from the run without the cancel in what was dropped only. *)
(***************************************************************************)
Cancelled(ctl) == [ctl EXCEPT !.state = "cancelled"]

Disconnect ==
  /\ AbortRelay
  /\ \E cancels \in BOOLEAN :
       controller' = IF cancels THEN Cancelled(controller) ELSE controller

\* the steps of the route and of runAgent
Run ==
  \/ RunAgentStart
  \/ LoopExhausted
  \/ LoopCancelled
  \/ LoopIterate
  \/ LLMReturn
  \/ LLMRaise
  \/ ToolsDone
  \/ ToolCancelled
  \/ ToolDispatchAsync
  \/ ToolExtract
  \/ ToolUnknown
  \/ DelayDone
  \/ SearchReturn
  \/ SearchThrow
  \/ DetailsReturn
  \/ NoPapers
  \/ ReviewStart
  \/ StreamEvent
  \/ StreamEnd
  \/ StreamError
  \/ RouteClose

Next ==
  \/ Run
  \/ Abort

Spec == Init /\ [][Next]_vars

(***************************************************************************)
(* The run under the assumption that every await of runAgent settles: the  *)
(* LLM call, the provider calls and the pacing delays return or raise, and *)
(* the synthesis stream, which yields at most MaxStream events, ends or    *)
(* fails.  The event loop then resumes the function, so a step of Run that *)
(* stays possible is eventually taken.  Nothing is assumed of the client:  *)
(* it disconnects at any await, or never.                                  *)
(***************************************************************************)
LiveSpec == Init /\ [][Next]_vars /\ WF_vars(Run)

RouteNext ==
  \/ Run
  \/ Disconnect

RouteSpec == Init /\ [][RouteNext]_vars


(***************************************************************************)
(* The browser consumer of the review stream (handleSubmit).  Its input is *)
(* the response it is given: whether the status is ok, the frames of the   *)
(* body in order, and how the body ends: reader.read() resolves done, or   *)
(* rejects.  A frame is its event type; "status" stands for the four types *)
(* that only push a log entry, "papers_count" and "review_chunk" update    *)
(* the count and the text, and "other" is a part without an event line or  *)
(* without a data line, which the loop skips.  page.saved counts the calls *)
(* of saveConversation and page.errorLogs the error entries logged.        *)
(***************************************************************************)
MaxFrames == 3
MaxSaved == 2

FrameTypes ==
  { "status", "papers_count", "review_chunk", "complete", "error", "other" }

Endings == { "done", "throw" }

main == << pc, aborted, iterations, messages, collectedPapers, pending,
           toolResults, streamLen, log, generated, hist, controller,
           toolInput, providerLimit >>

\* the switch on eventType
onFrame(pg, type) ==
  CASE type = "complete" ->
         [pg EXCEPT !.isComplete = TRUE, !.isRunning = FALSE,
                    !.saved = Min(@ + 1, MaxSaved)]
    [] type = "error" ->
         [pg EXCEPT !.isRunning = FALSE, !.errorLogs = Min(@ + 1, MaxSaved)]
    [] OTHER -> pg

\* the catch of handleSubmit
onReadError(pg, name) ==
  [pg EXCEPT !.isRunning = FALSE,
             !.errorLogs = IF name # "AbortError" THEN Min(@ + 1, MaxSaved)
                           ELSE @]

\* resetState(); setIsRunning(true); fetch is called
handleSubmit ==
  /\ reader.state = "none"
  /\ \E ok \in BOOLEAN, frames \in SeqsUpTo(FrameTypes, MaxFrames),
        ending \in Endings :
       reader' = [ state |-> "fetching", ok |-> ok, frames |-> frames,
                   ending |-> ending, completeSeen |-> FALSE ]
  /\ page' = [IdlePage EXCEPT !.isRunning = TRUE]
  /\ UNCHANGED main

\* fetch resolves; a response that is not ok is thrown into the catch
FetchReturn ==
  /\ reader.state = "fetching"
  /\ reader.ending # "abort"
  /\ IF reader.ok
     THEN /\ reader' = [reader EXCEPT !.state = "reading"]
          /\ page' = page
     ELSE /\ reader' = [reader EXCEPT !.state = "ended", !.frames = <<>>]
          /\ page' = onReadError(page, "Error")
  /\ UNCHANGED main

\* reader.read() resolves with a frame, and the loop handles it
ReadFrame ==
  /\ reader.state = "reading"
  /\ reader.ending # "abort"
  /\ reader.frames # <<>>
  /\ page' = onFrame(page, Head(reader.frames))
  /\ reader' = [reader EXCEPT
                  !.frames = Tail(@),
                  !.completeSeen = @ \/ Head(reader.frames) = "complete"]
  /\ UNCHANGED main

\* reader.read() resolves with done: break, and handleSubmit returns
ReadDone ==
  /\ reader.state = "reading"
  /\ reader.frames = <<>>
  /\ reader.ending = "done"
  /\ reader' = [reader EXCEPT !.state = "ended"]
  /\ UNCHANGED << page, main >>

\* reader.read() rejects: the connection failed
ReadThrow ==
  /\ reader.state = "reading"
  /\ reader.frames = <<>>
  /\ reader.ending = "throw"
  /\ reader' = [reader EXCEPT !.state = "ended"]
  /\ page' = onReadError(page, "TypeError")
  /\ UNCHANGED main

\* handleCancel: the fetch is aborted, and the await in flight will reject
handleCancel ==
  /\ reader.state \in { "fetching", "reading" }
  /\ reader.ending # "abort"
  /\ page.isRunning
  /\ reader' = [reader EXCEPT !.ending = "abort", !.frames = <<>>]
  /\ page' = [page EXCEPT !.isRunning = FALSE,
                          !.errorLogs = Min(@ + 1, MaxSaved)]
  /\ UNCHANGED main

\* the await in flight rejects with an AbortError
ReadAborted ==
  /\ reader.state \in { "fetching", "reading" }
  /\ reader.ending = "abort"
  /\ reader' = [reader EXCEPT !.state = "ended"]
  /\ page' = onReadError(page, "AbortError")
  /\ UNCHANGED main

ConsumerNext ==
  \/ handleSubmit
  \/ FetchReturn
  \/ ReadFrame
  \/ ReadDone
  \/ ReadThrow
  \/ handleCancel
  \/ ReadAborted

ConsumerSpec == Init /\ [][ConsumerNext]_vars

(***************************************************************************)
(* The limit of a search tool call, on its own.  The input of the call is  *)
(* the LLM's: the schema gives limit as an optional number, so it is       *)
(* absent or an integer of either sign.  providerLimit holds the limit     *)
(* written into the provider's URL, once the call has been made.           *)
(***************************************************************************)
MaxLimit == 25

SearchTools == { "search_semantic_scholar", "search_arxiv" }

ToolInputs ==
  { [name |-> n, hasLimit |-> FALSE, limit |-> 0] : n \in SearchTools } \cup
  { [name |-> n, hasLimit |-> TRUE, limit |-> l] :
      n \in SearchTools, l \in (0 - MaxLimit)..MaxLimit }

\* mutant of ClampedLimit: the requested limit is passed on as it is
UnclampedLimit(input) ==
  IF input.hasLimit /\ input.limit # 0 THEN input.limit ELSE 10

\* Math.min((input.limit as number) || 10, 20): undefined and 0 are falsy
ClampedLimit(input) ==
  Min(IF input.hasLimit /\ input.limit # 0 THEN input.limit ELSE 10, 20)

LimitInit ==
  /\ pc = "start"
  /\ aborted = FALSE
  /\ iterations = 0
  /\ messages = <<>>
  /\ collectedPapers = EmptyMap
  /\ pending = <<>>
  /\ toolResults = <<>>
  /\ streamLen = 0
  /\ log = InitLog
  /\ generated = <<>>
  /\ hist = InitHist
  /\ controller = InitController
  /\ reader = NoReader
  /\ page = IdlePage
  /\ toolInput \in ToolInputs
  /\ providerLimit = <<>>

\* executeTool computes the limit and calls the adapter with it; the
\* adapter is always given the argument, so its default is not used
SearchCalled ==
  /\ providerLimit = <<>>
  /\ providerLimit' = << ClampedLimit(toolInput) >>
  /\ UNCHANGED << pc, aborted, iterations, messages, collectedPapers, pending,
                  toolResults, streamLen, log, generated, hist, controller,
                  reader, page, toolInput >>

LimitNext == SearchCalled

LimitSpec == LimitInit /\ [][LimitNext]_vars

(***************************************************************************)
(* Properties.                                                             *)
(***************************************************************************)
Ended == pc \in { "returned", "closed" }

Terminals == Len(log.errors) + log.nComplete

IsPrefix(s, t) == Len(s) <= Len(t) /\ SubSeq(t, 1, Len(s)) = s

\* the normalized title of the data model: trimmed and lowercased
NormalizedTitle(t) == TrimStart(TrimEnd(ToLowerCase(t)))

\* C1: the search phase makes at most 8 LLM calls.  Every pass of
\* LoopIterate increments iterations and makes one call, so iterations is
\* the number of calls made; overCeiling remembers a pass beyond the ceiling
\* after the loop is left.
C1_IterationCeiling == iterations <= maxIterations /\ ~hist.overCeiling

\* C1, the case: eight iterations ran and the run went on to synthesis
C1_Witness == hist.searchEnd = "exhausted" /\ hist.streamOpened

\* C2 as stated: with the abort signal set, no event other than an error is
\* emitted, at most one error is emitted, and a run that ends after the
\* signal was raised has emitted that one error.
C2_OnlyErrorAfterCancel ==
  /\ ~log.cancelOther
  /\ log.cancelErrors <= 1
  /\ (Ended /\ aborted => log.cancelErrors = 1)

\* C3: when the search phase ends with an empty Map, the run emits no
\* review_start, review_chunk or complete, at most one error, and exactly
\* one error once it has ended.
C3_EmptySetGuard ==
  hist.searchEnd # "none" /\ hist.emptyAtSearchEnd =>
    /\ log.nStart = 0
    /\ log.chunks = <<>>
    /\ log.nComplete = 0
    /\ Len(log.errors) <= 1
    /\ (Ended => Len(log.errors) = 1)

\* C3, the case: the phase ended as Done with no paper and the run is over
C3_Witness ==
  /\ pc = "closed"
  /\ hist.searchEnd = "done"
  /\ hist.emptyAtSearchEnd
  /\ log.errors = << "no papers" >>

\* C4: a run never holds more than one terminal event, no event follows a
\* terminal event, a terminal event ends the run, and a run that has ended
\* (returned, thrown into the route's catch, closed) holds exactly one.
C4_OneTerminalEvent ==
  /\ Terminals <= 1
  /\ ~log.afterTerminal
  /\ (Terminals = 1 => Ended)
  /\ (Ended => Terminals = 1)

\* C4, the case: runAgent threw and the route closed the stream
C4_Witness == pc = "closed" /\ log.errors = << "route" >>

\* C5: once a response's text contained the sentinel, no tool call is
\* dispatched, none is waiting to be, and no further turn is taken.
C5_NoToolAfterSentinel ==
  /\ ~hist.lateDispatch
  /\ (hist.sentinelSeen =>
        pending = <<>> /\ pc \in { "phase2", "stream", "returned", "closed" })

\* C5, the case: the response with the sentinel also carried tool_use blocks
C5_Witness == hist.sentinelTools /\ pc = "closed"

\* C6: no two entries of the Map have equal normalized titles, and every
\* entry's key is the normalized title of its own paper.
C6_Deduplicated ==
  /\ \A j, k \in DOMAIN collectedPapers :
        NormalizedTitle(collectedPapers[j].title)
          = NormalizedTitle(collectedPapers[k].title) => j = k
  /\ \A k \in DOMAIN collectedPapers :
        k = NormalizedTitle(collectedPapers[k].title)

\* C6, the case: two papers are held, one of them under a key that differs
\* from its title
C6_Witness ==
  /\ MapSize(collectedPapers) = 2
  /\ \E k \in DOMAIN collectedPapers : k # collectedPapers[k].title

\* C7: the papers_count values never decrease, and the latest value is the
\* size of the Map (the Map changes only in the step that emits the value).
C7_CountTracksSet ==
  /\ log.countMono
  /\ (log.hasCount => log.lastCount = MapSize(collectedPapers))

\* C7, the case: the count has grown to two over the run
C7_Witness == log.hasCount /\ log.lastCount = 2 /\ pc = "tool_top"

\* C8: the review_chunk payloads are a prefix of the fragments the stream
\* has produced, in order; they are all of them while the signal is not
\* set, and on a run that reached complete.
C8_ChunksAreDocument ==
  /\ IsPrefix(log.chunks, generated)
  /\ (~aborted \/ log.nComplete > 0 => log.chunks = generated)

\* C8, the case: a completed run with two different fragments
C8_Witness ==
  /\ log.nComplete = 1
  /\ Len(log.chunks) = 2
  /\ log.chunks[1] # log.chunks[2]

\* C9: once the stream is exhausted there is exactly one complete event,
\* nothing was emitted after it, no error was emitted, and its paperCount is
\* the size of the Map.
C9_CompleteOnce ==
  hist.streamExhausted =>
    /\ log.nComplete = 1
    /\ ~log.afterTerminal
    /\ log.errors = <<>>
    /\ log.paperCount = MapSize(collectedPapers)

\* C9, the case: a stream that delivered chunks and was exhausted
C9_Witness ==
  /\ hist.streamExhausted
  /\ Len(log.chunks) = 2
  /\ MapSize(collectedPapers) = 2
  /\ pc = "closed"

\* C10 as stated: when the signal was raised during the search phase, the
\* run does not start synthesis: no review_start or review_chunk is emitted
\* and no synthesis stream is opened.  (The claim also names the error
\* message; that part fails sooner, when the LLM call raises or the Map is
\* empty after the signal, and is left out so that the run shown is one
\* that starts synthesis.)
C10_CancelInSearchSkipsSynthesis ==
  hist.cancelPhase = "search" =>
    /\ log.nStart = 0
    /\ log.chunks = <<>>
    /\ ~hist.streamOpened

\* C11 as stated: when the signal was raised while the synthesis stream was
\* being consumed, no review_chunk is emitted with the signal set, the run
\* never emits complete, it emits at most one error, and exactly one once it
\* has ended.
C11_CancelInStreamNoComplete ==
  hist.cancelPhase = "synthesis" =>
    /\ ~log.cancelChunk
    /\ log.nComplete = 0
    /\ Len(log.errors) <= 1
    /\ (Ended => Len(log.errors) = 1)

Last(s) == s[Len(s)]

HasError(results) == \E i \in 1..Len(results) : results[i].content = "error"

InToolLoop == pc \in { "tool_top", "tool_delay", "tool_fetch" }

\* a step in which the tool call at the head of pending threw: its result
\* is the "Error: ..." string
ToolThrew ==
  /\ pending # <<>>
  /\ toolResults' = Append(toolResults, ToolResult(Head(pending), "error"))

\* C12: an exception of a tool call does not end the run and emits no error
\* event.  The step that catches it emits no terminal event, adds the error
\* result for that call and stays in the for loop with the remaining calls;
\* while a turn holds an error result, and when that turn has been appended
\* and the loop is back at its top, no error event has been emitted unless
\* the signal was raised.
C12_ToolExceptionContained ==
  /\ [][ToolThrew =>
          /\ log'.errors = log.errors
          /\ log'.nComplete = log.nComplete
          /\ pc' = "tool_top"
          /\ pending' = Tail(pending)
          /\ iterations' = iterations]_vars
  /\ [](InToolLoop /\ HasError(toolResults) /\ ~aborted =>
          log.errors = <<>> /\ log.nComplete = 0)
  /\ [](pc = "loop_top" /\ Last(messages).kind = "tool_results" =>
          /\ log.errors = <<>> /\ log.nComplete = 0
          /\ Len(Last(messages).content) = Len(messages[Len(messages) - 1].content))

\* C12, the case: the first tool call of a turn threw, the second was
\* executed, and the loop is at the top of its next iteration
C12_Witness ==
  /\ pc = "loop_top"
  /\ ~aborted
  /\ LoopGuard(iterations)
  /\ Last(messages).kind = "tool_results"
  /\ Len(Last(messages).content) = 2
  /\ Last(messages).content[1].content = "error"
  /\ Last(messages).content[2].content = "json"

\* C13: when an LLM call of the search phase raised, the run has emitted
\* exactly one error event, the API error, and has returned: it is past the
\* loop with nothing left to dispatch, and it has emitted no review_start,
\* review_chunk or complete and opened no synthesis stream.
C13_LLMFailureIsFatal ==
  hist.searchEnd = "failed" =>
    /\ log.errors = << "api" >>
    /\ Ended
    /\ pending = <<>>
    /\ log.nStart = 0
    /\ log.chunks = <<>>
    /\ log.nComplete = 0
    /\ ~hist.streamOpened

\* C13, the case: the call raised after two papers had been collected
C13_Witness ==
  /\ hist.searchEnd = "failed"
  /\ MapSize(collectedPapers) = 2
  /\ pc = "closed"

\* C14: the review_chunk payloads only ever grow at their end; and when the
\* stream failed while the signal was not set, the run has ended with
\* exactly one error event, the generation error, no complete event, and
\* the chunks emitted before the failure are all still there.
C14_StreamFailure ==
  /\ [][IsPrefix(log.chunks, log'.chunks)]_vars
  /\ [](hist.streamFailed /\ ~aborted =>
          /\ log.errors = << "generation" >>
          /\ log.nComplete = 0
          /\ Ended
          /\ log.chunks = generated)

\* C14, the case: the stream failed after two chunks had been emitted
C14_Witness ==
  /\ hist.streamFailed
  /\ ~aborted
  /\ Len(log.chunks) = 2
  /\ pc = "closed"

\* the three conditions that end the search phase as Done, read off the
\* response r of iteration r.iteration
EndsAsDone(r) ==
  \/ r.sentinel
  \/ (r.nTools = 0 /\ r.iteration >= 3)
  \/ (r.nTools = 0 /\ r.endTurn)

\* C15: right after the response of an iteration has been acted on, the
\* phase has ended as Done exactly when one of the three conditions holds
\* of the response; otherwise the run is in the loop, at its top behind a
\* nudge when the response had no tool call, and else at the tool loop with
\* the tool calls of the response to dispatch.
C15_DoneExactly ==
  hist.response # NoResponse =>
    LET r == hist.response
    IN  /\ r.iteration \in 1..maxIterations
        /\ EndsAsDone(r) <=> (pc = "phase2" /\ hist.searchEnd = "done")
        /\ ~EndsAsDone(r) =>
              /\ hist.searchEnd = "none"
              /\ iterations = r.iteration
              /\ IF r.nTools = 0
                 THEN pc = "loop_top" /\ Last(messages).kind = "nudge"
                 ELSE /\ pc = "tool_top"
                      /\ Len(pending) = r.nTools
                      /\ toolResults = <<>>

\* C15, the case: the phase ended by the stalling rule alone, on a response
\* of iteration 3 without sentinel whose stop reason was not end_turn
C15_Witness ==
  /\ hist.response.iteration = 3
  /\ hist.response.nTools = 0
  /\ ~hist.response.sentinel
  /\ ~hist.response.endTurn
  /\ pc = "phase2"

\* a step that acts on a response without tool calls for which no
\* termination condition holds
NudgeStep ==
  /\ pc = "llm"
  /\ hist'.response # NoResponse
  /\ hist'.response.nTools = 0
  /\ ~EndsAsDone(hist'.response)

\* C16: such a step does not leave the loop: it appends the assistant turn
\* and then one user nudge to the transcript and nothing else, dispatches no
\* tool, emits no terminal event and returns to the top of the loop; the
\* iteration it belongs to stays counted.
C16_NudgeAndContinue ==
  [][NudgeStep =>
       /\ Len(messages') = Len(messages) + 2
       /\ SubSeq(messages', 1, Len(messages)) = messages
       /\ messages'[Len(messages) + 1].role = "assistant"
       /\ messages'[Len(messages) + 1].kind = "response"
       /\ messages'[Len(messages) + 2] = Turn("user", "nudge")
       /\ pc' = "loop_top"
       /\ pending' = <<>>
       /\ toolResults' = <<>>
       /\ collectedPapers' = collectedPapers
       /\ iterations' = iterations
       /\ iterations \in 1..maxIterations
       /\ hist'.searchEnd = "none"
       /\ log'.errors = <<>> /\ log'.nComplete = 0]_vars

\* C16, the case: the response of iteration 2 was answered by a nudge and
\* the loop is about to start iteration 3
C16_Witness ==
  /\ pc = "loop_top"
  /\ iterations = 2
  /\ Len(messages) = 5
  /\ messages[4] = AssistantTurn(<<>>)
  /\ messages[5] = Turn("user", "nudge")
  /\ hist.response.nTools = 0
  /\ ~aborted

\* the ids of the tool calls of the turn being answered, in request order:
\* the content kept of the assistant turn at position i of the transcript
RequestedIds(i) == messages[i].content

\* C17: in the tool loop the results pushed so far answer, in order and by
\* id, the first tool calls of the assistant turn, and the calls still to
\* run are the rest of them, in order; a call is only in flight as the head
\* of the calls still to run, so none starts before the one before it has
\* pushed its result.  The user turn appended afterwards holds one result
\* per tool call of the assistant turn before it, in order and by id.
C17_ToolsInOrder ==
  /\ InToolLoop =>
        LET ids == RequestedIds(Len(messages))
        IN  /\ Last(messages).role = "assistant"
            /\ Len(toolResults) + Len(pending) = Len(ids)
            /\ \A i \in 1..Len(toolResults) : toolResults[i].tool_use_id = ids[i]
            /\ \A j \in 1..Len(pending) : pending[j].id = ids[Len(toolResults) + j]
            /\ (pc \in { "tool_delay", "tool_fetch" } => pending # <<>>)
  /\ pc = "loop_top" /\ Last(messages).kind = "tool_results" =>
        LET ids == RequestedIds(Len(messages) - 1)
            results == Last(messages).content
        IN  /\ messages[Len(messages) - 1].role = "assistant"
            /\ Last(messages).role = "user"
            /\ Len(results) = Len(ids)
            /\ Len(ids) > 0
            /\ \A i \in 1..Len(ids) : results[i].tool_use_id = ids[i]

\* C17, the case: a turn of two tool calls, whose ids are not in ascending
\* order, has been answered
C17_Witness ==
  /\ pc = "loop_top"
  /\ Last(messages).kind = "tool_results"
  /\ Len(Last(messages).content) = 2
  /\ Last(messages).content[1].tool_use_id = 2
  /\ Last(messages).content[2].tool_use_id = 1

\* C18: the phase ends as Exhausted only from the top of the loop after 8
\* iterations, with no event of its own; and past the guard on the Map a
\* run whose phase ended as Exhausted is where one whose phase ended as Done
\* is: with at least one paper it has emitted review_start once and opened
\* the synthesis stream, with the papers collected when the phase ended,
\* and with none it has emitted the one error and no review_start.
C18_ExhaustedAsDone ==
  /\ [][hist.searchEnd = "none" /\ hist'.searchEnd = "exhausted" =>
          /\ iterations = maxIterations
          /\ pc = "loop_top" /\ pc' = "phase2"
          /\ log' = log
          /\ collectedPapers' = collectedPapers]_vars
  /\ [][hist.searchEnd \in { "done", "exhausted" } =>
          collectedPapers' = collectedPapers]_vars
  /\ [](hist.searchEnd \in { "done", "exhausted" } /\ pc # "phase2" =>
          IF hist.emptyAtSearchEnd
          THEN log.nStart = 0 /\ ~hist.streamOpened /\ log.errors = << "no papers" >>
          ELSE log.nStart = 1 /\ hist.streamOpened /\ MapSize(collectedPapers) > 0)

\* C18, the case: the phase ended as Exhausted with one paper and the
\* synthesis has produced a chunk
C18_Witness ==
  /\ hist.searchEnd = "exhausted"
  /\ MapSize(collectedPapers) = 1
  /\ log.nStart = 1
  /\ Len(log.chunks) = 1
  /\ pc = "stream"

\* C19 as stated: every paper held in the Map has a title, and the title is
\* not the empty string.
C19_TitlesNonEmpty ==
  \A k \in DOMAIN collectedPapers :
     collectedPapers[k].hasTitle /\ collectedPapers[k].title # <<>>

\* C20: the number of paper_found events is the number of entries of the
\* Map (an entry is inserted and announced in the same step, and a returned
\* paper whose key is held is neither), and every papers_count event
\* carried the number of paper_found events emitted before it.
C20_FoundOncePerEntry ==
  /\ log.nFound = MapSize(collectedPapers)
  /\ log.countIsFound

\* C20, the case: the tool call that has just returned skipped a paper
\* whose key was held, with two papers found over the run
C20_Witness ==
  /\ pc = "tool_top"
  /\ hist.dupSkipped
  /\ log.nFound = 2
  /\ log.hasCount /\ log.lastCount = 2


\* C21: while the response stream has not been cancelled, every event that
\* runAgent or the route's catch emits is enqueued in the step that emits
\* it (so frames follow in emission order, one per event); close is called
\* once, by the step that follows the return or throw of runAgent, whatever
\* the outcome; and nothing is emitted to a closed stream.
C21_ForwardedWhileReadable ==
  /\ (controller.state # "cancelled" => ~log.dropped)
  /\ ~log.afterClose
  /\ controller.closeCalls <= 1
  /\ (pc = "closed" <=> controller.closeCalls = 1)
  /\ (controller.state = "closed" => pc = "closed")

\* C21, the case: the client disconnected, the stream stayed readable, the
\* cancellation error was forwarded and the route closed the stream
C21_Witness ==
  /\ pc = "closed"
  /\ controller = [state |-> "closed", closeCalls |-> 1]
  /\ aborted
  /\ log.cancelErrors = 1
  /\ ~log.dropped

\* C21 as stated: every event is forwarded, in every outcome
C21_EveryEventForwarded ==
  /\ ~log.dropped
  /\ ~log.afterClose
  /\ controller.closeCalls <= 1
  /\ (pc = "closed" <=> controller.closeCalls = 1)


\* C22 as stated: once the consumer has finished reading a response in
\* which it met no complete frame, it is not running, is not marked
\* complete and has saved nothing; and it saves only on a complete frame.
C22_CloseWithoutCompleteIsFailure ==
  /\ (reader.state = "ended" /\ ~reader.completeSeen =>
        /\ ~page.isRunning
        /\ ~page.isComplete
        /\ page.saved = 0)
  /\ (page.saved > 0 => reader.completeSeen)


\* a tool dispatch has returned with the abort signal set, and the run has
\* not reached a cancellation check since: it is between tools, at the top
\* of the loop after the tool results were pushed, or past the loop that
\* the eighth iteration has exhausted.  (The signal is never raised at
\* these positions themselves: none of them is an await.)
CancelDue ==
  /\ aborted
  /\ \/ pc = "tool_top" /\ toolResults # <<>>
     \/ pc = "loop_top" /\ Last(messages).kind = "tool_results"
     \/ pc = "phase2" /\ hist.searchEnd = "exhausted"

\* C23 as stated: once a tool dispatch has returned with the signal set,
\* every step either emits nothing and stays short of the next tool, LLM
\* call and synthesis, or emits the cancellation error and returns.
C23_CancelAfterToolReturn ==
  [][ CancelDue =>
        \/ log' = log /\ CancelDue'
        \/ log' = Emit(log, "error", "cancelled") /\ pc' = "returned" ]_vars


\* the tools that write to the Map
CollectingTools ==
  { "search_semantic_scholar", "search_arxiv", "get_paper_details" }

\* C24: a step changes the Map only when it is the return of the provider
\* call of search_semantic_scholar, search_arxiv or get_paper_details (so
\* extract_findings, an unknown tool, the LLM steps, the nudge and all of
\* synthesis leave it unchanged); and the dispatch of any other name than
\* the four tools pushes the result "Unknown tool: <name>" under the id of
\* the call, emits no event and goes on to the next tool.
C24_MapWrittenByThreeTools ==
  [][ /\ collectedPapers' # collectedPapers =>
           /\ pc = "tool_fetch"
           /\ Head(pending).name \in CollectingTools
      /\ ( /\ pc = "tool_top"
           /\ pending # <<>>
           /\ ~aborted
           /\ Head(pending).name \notin CollectingTools \cup { "extract_findings" }
           => /\ toolResults' =
                   Append(toolResults,
                          [ tool_use_id |-> Head(pending).id,
                            content |-> "Unknown tool: other_tool" ])
              /\ log' = log
              /\ collectedPapers' = collectedPapers
              /\ pending' = Tail(pending)
              /\ pc' = "tool_top" ) ]_vars

\* C24, the case: an unknown tool has been executed with a paper in the Map
C24_Witness ==
  /\ pc = "tool_top"
  /\ toolResults # <<>>
  /\ Last(toolResults).content = "Unknown tool: other_tool"
  /\ MapSize(collectedPapers) > 0


\* C25: the limit written into the provider's URL is at most 20; it is the
\* smaller of the requested limit and 20 when a non-zero limit is
\* requested, and 10 when the limit is absent or zero.
C25_LimitClamped ==
  providerLimit # <<>> =>
    LET sent == providerLimit[1]
        requested == toolInput.limit
    IN  /\ sent <= 20
        /\ (toolInput.hasLimit /\ requested # 0 =>
              /\ (requested <= 20 => sent = requested)
              /\ (requested > 20 => sent = 20))
        /\ (~toolInput.hasLimit \/ requested = 0 => sent = 10)

\* C25, the case: a limit above 20 was requested and 20 was sent
C25_Witness ==
  /\ toolInput.hasLimit
  /\ toolInput.limit > 20
  /\ providerLimit = << 20 >>


\* C26: no step removes an entry of the Map or replaces the paper stored
\* under a key, so the paper kept for a normalized title is the first one
\* inserted for it; and the papers handed to the synthesis call are the
\* values the Map holds when the search phase is over.
C26_EntriesKept ==
  [][ /\ \A k \in DOMAIN collectedPapers :
           /\ k \in DOMAIN collectedPapers'
           /\ collectedPapers'[k] = collectedPapers[k]
      /\ (pc = "phase2" /\ pc' = "stream" =>
            hist'.papersForReview = collectedPapers)
      /\ (hist.streamOpened =>
            hist'.papersForReview = hist.papersForReview) ]_vars

\* C26, the case: the Map holds one paper, stored with the title " a", and
\* the tool call that has just returned skipped a paper with its key
C26_Witness ==
  /\ pc = "tool_top"
  /\ hist.dupSkipped
  /\ DOMAIN collectedPapers = { << "a" >> }
  /\ collectedPapers[<< "a" >>].title = << " ", "a" >>

\* C27: once complete has been emitted, its paperCount is at least 1, a
\* papers_count event was emitted before it, and the paperCount is the
\* value of the latest papers_count event.
C27_CompleteCountIsLastCount ==
  log.nComplete > 0 =>
    /\ log.paperCount >= 1
    /\ log.hasCount
    /\ log.paperCount = log.lastCount

\* C27, the case: a run completed with two papers, and the latest
\* papers_count event carried 2
C27_Witness ==
  /\ pc = "returned"
  /\ log.nComplete = 1
  /\ log.paperCount = 2
  /\ log.lastCount = 2
  /\ log.nFound = 2


\* the turns of m are user, assistant, user, ... in this order
Alternates(m) ==
  \A i \in 1..Len(m) : m[i].role = IF i % 2 = 1 THEN "user" ELSE "assistant"

\* C28: while the LLM call of iteration k is in flight the transcript it
\* was given has 2k-1 turns, starts with the topic message, alternates user
\* and assistant and so ends with a user turn.  The transcript ends with an
\* assistant turn only while the tool calls of that response are being
\* executed (its tool results follow before anything is sent again, and the
\* nudge comes in the same step as its assistant turn).  When a response
\* ends the phase as Done, the transcript is left as it was sent: the
\* assistant turn of that response is not appended.
C28_TranscriptAlternates ==
  /\ (pc = "llm" =>
        /\ Len(messages) = 2 * iterations - 1
        /\ messages[1] = Turn("user", "topic")
        /\ Alternates(messages))
  /\ (messages # <<>> /\ Last(messages).role = "assistant" =>
        /\ InToolLoop
        /\ Len(messages) = 2 * iterations
        /\ Alternates(messages))
  /\ (pc = "loop_top" =>
        /\ Len(messages) = 2 * iterations + 1
        /\ Alternates(messages))
  /\ (pc = "phase2" /\ hist.searchEnd = "done" =>
        /\ Len(messages) = 2 * hist.response.iteration - 1
        /\ Alternates(messages))

\* C28, the case: the response of the third LLM call has ended the phase
C28_Witness ==
  /\ pc = "phase2"
  /\ hist.searchEnd = "done"
  /\ hist.response.iteration = 3
  /\ Len(messages) = 5


\* C29: review_start is emitted at most once; when a review_chunk or the
\* complete event has been emitted, review_start has been emitted before;
\* and no thinking, paper_found or papers_count event is emitted after
\* review_start.
C29_TwoPhaseOrder ==
  /\ log.nStart <= 1
  /\ (log.chunks # <<>> \/ log.nComplete > 0 => log.nStart = 1)
  /\ ~log.lateSearch

\* C29, the case: a run that found papers, announced the review, streamed
\* one chunk and completed
C29_Witness ==
  /\ pc = "returned"
  /\ log.hasCount
  /\ log.nStart = 1
  /\ Len(log.chunks) = 1
  /\ log.nComplete = 1


\* C30: every run eventually has emitted its terminal event (one complete
\* or one error) and runAgent has returned or thrown into the route.
C30_Terminates == <>(Ended /\ Terminals = 1)

\* C30, the case: a run that used all eight iterations, was cancelled
\* while the review was streaming, and returned with its one terminal event
C30_Witness ==
  /\ pc = "returned"
  /\ hist.searchEnd = "exhausted"
  /\ hist.cancelPhase = "synthesis"
  /\ Terminals = 1

====
